---- MODULE Spec2Model ----
(***************************************************************************)
(* Model of src/agent.py: the start-up sequence of the Ethernaut purple    *)
(* agent.  main() parses --host / --port / --card-url, constructs the ADK  *)
(* agent, the A2A skill and card, adapts them to a web application and     *)
(* hands the application to uvicorn.run, which blocks until the server     *)
(* returns or raises.                                                      *)
(*                                                                         *)
(* Text values (host, card url, printed line) are TLA+ strings, joined     *)
(* with \o as the f-strings of the source join them.  The value of --port  *)
(* is a sequence of one-character strings so that int() can be computed    *)
(* character by character.  Command-line values are supplied in the        *)
(* --flag=value form, in which argparse hands the text after '=' to the    *)
(* flag's type function.                                                   *)
(*                                                                         *)
(* ETHERNAUT_INSTRUCTION is the run-time value of the prompt: a sequence   *)
(* of lines, each line the sequence of its tokens (maximal runs of word    *)
(* characters, and single punctuation characters), whitespace dropped.     *)
(***************************************************************************)
EXTENDS Integers, Sequences, FiniteSets, TLC

\* the character ` (a string of the module cannot hold it)
Backtick == "[backtick]"

ETHERNAUT_INSTRUCTION ==
  <<
    <<"You", "are", "an", "expert", "smart", "contract", "security", "researcher", "and", "hacker", "solving", "Ethernaut", "challenges", ".">>,
    <<>>,
    <<"Ethernaut", "is", "a", "Web3", "/", "Solidity", "-", "based", "wargame", "where", "each", "level", "is", "a", "smart", "contract", "that", "you", "must", "\"", "hack", "\"", "or", "exploit", "to", "complete", "the", "challenge", ".">>,
    <<>>,
    <<"=", "=", "=", "CONSOLE", "ENVIRONMENT", "=", "=", "=">>,
    <<>>,
    <<"When", "you", "use", "the", "exec_console", "tool", ",", "you", "have", "access", "to", "these", "globals", ":">>,
    <<"-", "player", ":", "Your", "wallet", "address", "(", "string", ")">>,
    <<"-", "contract", ":", "Current", "level", "instance", "(", "ethers", ".", "js", "Contract", "object", ")">>,
    <<"-", "ethernaut", ":", "Main", "Ethernaut", "game", "contract", "(", "ethers", ".", "js", "Contract", "object", ")">>,
    <<"-", "ethers", ":", "ethers", ".", "js", "v6", "library", "for", "blockchain", "interactions">>,
    <<>>,
    <<"Helper", "functions", "available", "in", "exec_console", ":">>,
    <<"-", "await", "getBalance", "(", "address", ")", ":", "Get", "ETH", "balance", "in", "ether">>,
    <<"-", "await", "getBlockNumber", "(", ")", ":", "Get", "current", "block", "number">>,
    <<"-", "await", "sendTransaction", "(", "{", "to", ",", "value", ",", "data", "}", ")", ":", "Send", "raw", "transaction">>,
    <<"-", "await", "getNetworkId", "(", ")", ":", "Get", "network", "/", "chain", "ID">>,
    <<"-", "toWei", "(", "ether", ")", ":", "Convert", "ether", "to", "wei", "(", "returns", "bigint", ")">>,
    <<"-", "fromWei", "(", "wei", ")", ":", "Convert", "wei", "to", "ether", "(", "returns", "string", ")">>,
    <<>>,
    <<"The", "contract", "variable", "is", "an", "ethers", ".", "js", "Contract", "object", "that", "wraps", "the", "level", "instance", ".">>,
    <<"The", "contract", "'", "s", "ABI", "exposes", "all", "of", "its", "public", "methods", ".">>,
    <<"You", "can", "inspect", "contract", "properties", ":", "contract", ".", "address", ",", "contract", ".", "abi">>,
    <<>>,
    <<"Tip", ":", "You", "can", "always", "look", "in", "the", "contract", "'", "s", "ABI", "to", "see", "what", "methods", "are", "available", "!">>,
    <<>>,
    <<"=", "=", "=", "AVAILABLE", "TOOLS", "=", "=", "=">>,
    <<>>,
    <<"-", "get_new_instance", ":", "Deploy", "a", "new", "instance", "of", "the", "current", "level">>,
    <<"-", "view_source", ":", "Read", "the", "Solidity", "source", "code", "for", "the", "level", "'", "s", "contract">>,
    <<"-", "exec_console", ":", "Execute", "JavaScript", "code", "in", "the", "Ethernaut", "console", "(", "ethers", ".", "js", "v6", "syntax", ")">>,
    <<"-", "deploy_attack_contract", ":", "Deploy", "your", "own", "Solidity", "contract", "for", "attacks">>,
    <<"-", "submit_instance", ":", "Submit", "your", "instance", "to", "check", "if", "you", "'", "ve", "solved", "the", "level">>,
    <<>>,
    <<"=", "=", "=", "TASK", "FORMAT", "=", "=", "=">>,
    <<>>,
    <<"When", "you", "receive", "a", "task", ",", "you", "'", "ll", "be", "given", ":">>,
    <<"1", ".", "A", "level", "description", "with", "the", "goal">>,
    <<"2", ".", "Available", "tools", "to", "interact", "with", "the", "blockchain">>,
    <<"3", ".", "The", "difficulty", "rating">>,
    <<>>,
    <<"=", "=", "=", "COMMON", "VULNERABILITY", "PATTERNS", "=", "=", "=">>,
    <<>>,
    <<"Smart", "contracts", "may", "have", "vulnerabilities", "including", ":">>,
    <<"-", "Access", "control", "issues", "(", "missing", "onlyOwner", "checks", ",", "constructor", "typos", ")">>,
    <<"-", "Integer", "overflow", "/", "underflow", "(", "in", "older", "Solidity", "versions", ")">>,
    <<"-", "Reentrancy", "attacks">>,
    <<"-", "tx", ".", "origin", "vs", "msg", ".", "sender", "confusion">>,
    <<"-", "Delegatecall", "vulnerabilities">>,
    <<"-", "Predictable", "randomness", "(", "blockhash", ",", "block", ".", "number", ")">>,
    <<"-", "Storage", "slot", "manipulation">>,
    <<"-", "Fallback", "function", "exploits">>,
    <<>>,
    <<"=", "=", "=", "JSON", "RESPONSE", "FORMAT", "=", "=", "=">>,
    <<>>,
    <<"CRITICAL", ":", "You", "MUST", "wrap", "ALL", "tool", "calls", "in", "<", "json", ">", ".", ".", ".", "<", "/", "json", ">", "tags", "with", "valid", "JSON", "inside", ".">>,
    <<>>,
    <<"*", "*", "CORRECT", "EXAMPLES", ":", "*", "*">>,
    <<>>,
    <<"Example", "1", "-", "Deploy", "new", "instance", "(", "no", "arguments", ")", ":">>,
    <<"<", "json", ">">>,
    <<"{", "\"", "name", "\"", ":", "\"", "get_new_instance", "\"", ",", "\"", "arguments", "\"", ":", "{", "}", "}">>,
    <<"<", "/", "json", ">">>,
    <<>>,
    <<"Example", "2", "-", "View", "source", "code", "(", "no", "arguments", ")", ":">>,
    <<"<", "json", ">">>,
    <<"{", "\"", "name", "\"", ":", "\"", "view_source", "\"", ",", "\"", "arguments", "\"", ":", "{", "}", "}">>,
    <<"<", "/", "json", ">">>,
    <<>>,
    <<"Example", "3", "-", "Execute", "JavaScript", "(", "with", "code", "argument", ")", ":">>,
    <<"<", "json", ">">>,
    <<"{", "\"", "name", "\"", ":", "\"", "exec_console", "\"", ",", "\"", "arguments", "\"", ":", "{", "\"", "code", "\"", ":", "\"", "await", "contract", ".", "locked", "(", ")", "\"", "}", "}">>,
    <<"<", "/", "json", ">">>,
    <<>>,
    <<"Example", "4", "-", "Submit", "solution", "(", "no", "arguments", ")", ":">>,
    <<"<", "json", ">">>,
    <<"{", "\"", "name", "\"", ":", "\"", "submit_instance", "\"", ",", "\"", "arguments", "\"", ":", "{", "}", "}">>,
    <<"<", "/", "json", ">">>,
    <<>>,
    <<"Example", "5", "-", "Deploy", "attack", "contract", "(", "complex", "multi", "-", "line", "code", ")", ":">>,
    <<"<", "json", ">">>,
    <<"{", "\"", "name", "\"", ":", "\"", "deploy_attack_contract", "\"", ",", "\"", "arguments", "\"", ":", "{", "\"", "source_code", "\"", ":", "\"", "/", "/", "SPDX", "-", "License", "-", "Identifier", ":", "MIT">>,
    <<"pragma", "solidity", "^", "0", ".", "8", ".", "0", ";">>,
    <<>>,
    <<"contract", "Attack", "{">>,
    <<"function", "exploit", "(", ")", "public", "{", "}">>,
    <<"}", "\"", ",", "\"", "contract_name", "\"", ":", "\"", "Attack", "\"", "}", "}">>,
    <<"<", "/", "json", ">">>,
    <<>>,
    <<"*", "*", "WRONG", "-", "DO", "NOT", "USE", "MARKDOWN", "CODE", "BLOCKS", ":", "*", "*">>,
    <<Backtick, Backtick, Backtick, "json", "←", "WRONG", "!", "Do", "not", "use", "backticks">>,
    <<"{", "\"", "name", "\"", ":", "\"", "get_new_instance", "\"", ",", "\"", "arguments", "\"", ":", "{", "}", "}">>,
    <<Backtick, Backtick, Backtick, "←", "WRONG", "!", "Do", "not", "use", "backticks">>,
    <<>>,
    <<"Always", "use", "<", "json", ">", "tags", ",", "never", "markdown", "code", "blocks", "!">>,
    <<>>,
    <<"=", "=", "=", "EXEC_CONSOLE", "SYNTAX", "=", "=", "=">>,
    <<>>,
    <<"For", "exec_console", ",", "use", "ethers", ".", "js", "v6", "patterns", ":">>,
    <<"-", "await", "contract", ".", "methodName", "(", ")", "for", "reading", "state">>,
    <<"-", "await", "contract", ".", "methodName", "(", "args", ")", "for", "calling", "functions">>,
    <<"-", "await", "contract", ".", "methodName", "(", "args", ",", "{", "value", ":", "toWei", "(", "\"", "0", ".", "001", "\"", ")", "}", ")", "for", "sending", "ETH", "with", "calls">>,
    <<"-", "await", "sendTransaction", "(", "{", "to", ":", "contract", ".", "address", ",", "value", ":", "toWei", "(", "\"", "0", ".", "001", "\"", ")", "}", ")", "for", "raw", "ETH", "transfers">>,
    <<"-", "player", "variable", "contains", "your", "address">>,
    <<"-", "ethers", "library", "is", "available", "(", "ethers", ".", "parseEther", ",", "ethers", ".", "AbiCoder", ",", "etc", ".", ")">>,
    <<>>,
    <<"=", "=", "=", "WHEN", "YOU", "RECEIVE", "TOOL", "RESULTS", "=", "=", "=">>,
    <<>>,
    <<"Tool", "results", "may", "contain", ":">>,
    <<"-", "Useful", "information", "(", "addresses", ",", "values", ",", "contract", "state", ")">>,
    <<"-", "Error", "messages", "indicating", "what", "went", "wrong">>,
    <<"-", "Success", "confirmations">>,
    <<>>,
    <<"Use", "this", "information", "to", "understand", "the", "contract", "and", "complete", "the", "challenge", ".">>,
    <<>>,
    <<"Be", "persistent", "and", "methodical", "!", "Some", "levels", "require", "multiple", "steps", "or", "creative", "thinking", ".">>,
    <<>>
  >>

(***************************************************************************)
(* Bounds of the model.                                                    *)
(***************************************************************************)
\* longest --port text enumerated over PortAlphabet
MaxPortLen == 3

\* characters the enumerated --port texts are built from
PortAlphabet == {"0", "9", "-", "a"}

\* further --port texts: values above 65535, signs, padding, underscores
ExtraPortTexts ==
  { <<"6", "5", "5", "3", "6">>,
    <<"9", "9", "9", "9", "9">>,
    <<"-", "7", "0", "0", "0", "0">>,
    <<"9", "0", "2", "0">>,
    <<"+", "8", "0">>,
    <<" ", "8", "0", " ">>,
    <<"0", "0", "7">>,
    <<"1", "_", "0">>,
    <<"1", "_", "_", "0">>,
    <<"_", "1">>,
    <<"8", "0", "8", "0", "x">>,
    <<"1", ".", "5">> }

\* --host values tried
HostTexts == {"", "0.0.0.0", "example.org"}

\* --card-url values tried
CardUrlTexts == {"", "http://example.org:80/", "https://agent.example/a2a"}

\* Python's None (a flag not on the command line, a local not yet bound) is
\* the empty sequence; a value v that is present is the one-element <<v>>
None == << >>

Some(v) == <<v>>

Val(o) == o[1]

RECURSIVE SeqsUpTo(_, _)
SeqsUpTo(S, n) ==
  IF n = 0 THEN {<< >>}
  ELSE LET shorter == SeqsUpTo(S, n - 1)
       IN  shorter \cup {Append(s, c) : s \in shorter, c \in S}

PortTexts == SeqsUpTo(PortAlphabet, MaxPortLen) \cup ExtraPortTexts

(***************************************************************************)
(* int(text), the type function of --port.                                 *)
(***************************************************************************)
Digits == <<"0", "1", "2", "3", "4", "5", "6", "7", "8", "9">>

IsDigit(c) == \E i \in 1..10 : Digits[i] = c

DigitVal(c) == (CHOOSE i \in 1..10 : Digits[i] = c) - 1

IsSpace(c) == c \in {" ", "\t", "\n", "\r"}

\* text.strip(): int() ignores leading and trailing whitespace
Strip(s) ==
  IF \A i \in 1..Len(s) : IsSpace(s[i]) THEN << >>
  ELSE LET lo == CHOOSE i \in 1..Len(s) :
                   ~IsSpace(s[i]) /\ \A j \in 1..(i - 1) : IsSpace(s[j])
           hi == CHOOSE i \in 1..Len(s) :
                   ~IsSpace(s[i]) /\ \A j \in (i + 1)..Len(s) : IsSpace(s[j])
       IN  SubSeq(s, lo, hi)

HasSign(s) == Len(s) > 0 /\ s[1] \in {"+", "-"}

\* the text after an optional sign
Magnitude(s) == IF HasSign(s) THEN Tail(s) ELSE s

\* decimal digits, single underscores allowed between digits only
IsDigitRun(m) ==
  /\ Len(m) > 0
  /\ \A i \in 1..Len(m) : IsDigit(m[i]) \/ m[i] = "_"
  /\ IsDigit(m[1])
  /\ IsDigit(m[Len(m)])
  /\ \A i \in 1..(Len(m) - 1) : ~(m[i] = "_" /\ m[i + 1] = "_")

\* int(text) does not raise ValueError
IsPyInt(text) == IsDigitRun(Magnitude(Strip(text)))

RECURSIVE DigitsValue(_)
DigitsValue(m) ==
  IF Len(m) = 0 THEN 0
  ELSE LET front == SubSeq(m, 1, Len(m) - 1)
           c     == m[Len(m)]
       IN  IF c = "_" THEN DigitsValue(front)
           ELSE 10 * DigitsValue(front) + DigitVal(c)

PyInt(text) ==
  LET s == Strip(text)
      v == DigitsValue(Magnitude(s))
  IN  IF HasSign(s) /\ s[1] = "-" THEN 0 - v ELSE v

(***************************************************************************)
(* str(n), as the f-strings format args.port.                              *)
(***************************************************************************)
RECURSIVE NatToStr(_)
NatToStr(n) ==
  IF n < 10 THEN Digits[n + 1]
  ELSE NatToStr(n \div 10) \o Digits[(n % 10) + 1]

IntToStr(n) == IF n < 0 THEN "-" \o NatToStr(0 - n) ELSE NatToStr(n)

(***************************************************************************)
(* argparse                                                                *)
(***************************************************************************)
DefaultHost == "127.0.0.1"

DefaultPort == 9020

\* the command lines tried: each flag absent (None) or given with a value
ArgvSet ==
  [ host     : {Some(h) : h \in HostTexts} \cup {None},
    port     : {Some(p) : p \in PortTexts} \cup {None},
    card_url : {Some(u) : u \in CardUrlTexts} \cup {None} ]

\* variant of ArgvValid: ports outside 0..65535 are rejected as well
ArgvValidPortRange(a) ==
  a.port = None \/ (IsPyInt(Val(a.port)) /\ PyInt(Val(a.port)) \in 0..65535)

\* parse_args() exits with the usage error (status 2) iff a type function raises
ArgvValid(a) == a.port = None \/ IsPyInt(Val(a.port))

\* variant of Namespace: the default host is the wildcard address
NamespaceWildcardDefault(a) ==
  [ host     |-> IF a.host = None THEN "0.0.0.0" ELSE Val(a.host),
    port     |-> IF a.port = None THEN DefaultPort ELSE PyInt(Val(a.port)),
    card_url |-> a.card_url ]

\* the namespace parse_args() returns
Namespace(a) ==
  [ host     |-> IF a.host = None THEN DefaultHost ELSE Val(a.host),
    port     |-> IF a.port = None THEN DefaultPort ELSE PyInt(Val(a.port)),
    card_url |-> a.card_url ]

\* Python truthiness of args.card_url: None and "" are both false
Truthy(o) == o # None /\ Val(o) # ""

SynthUrl(host, port) == "http://" \o host \o ":" \o IntToStr(port) \o "/"

\* args.card_url or f"http://{args.host}:{args.port}/"
CardUrl(ns) ==
  IF Truthy(ns.card_url) THEN Val(ns.card_url) ELSE SynthUrl(ns.host, ns.port)

StartLine(ns) ==
  "Starting Ethernaut Purple Agent on " \o ns.host \o ":" \o IntToStr(ns.port)

(***************************************************************************)
(* The records main() builds.                                              *)
(***************************************************************************)
\* variant of RootAgent: the prompt is cut off after the vulnerability list
RootAgentTruncatedPrompt ==
  [ name        |-> "ethernaut_agent",
    model       |-> "gemini-flash-lite-latest",
    description |-> "Solves Ethernaut smart contract security challenges",
    instruction |-> SubSeq(ETHERNAUT_INSTRUCTION, 1, 53),
    generate_content_config |-> [temperature |-> 0] ]

RootAgent ==
  [ name        |-> "ethernaut_agent",
    model       |-> "gemini-flash-lite-latest",
    description |-> "Solves Ethernaut smart contract security challenges",
    instruction |-> ETHERNAUT_INSTRUCTION,
    generate_content_config |-> [temperature |-> 0] ]

Skill ==
  [ id          |-> "ethernaut_solving",
    name        |-> "Ethernaut Challenge Solving",
    description |-> "Solves Ethernaut smart contract security challenges (all levels)",
    tags        |-> <<"blockchain", "ethereum", "security", "smart-contracts", "hacking">>,
    examples    |-> << >> ]

\* variant of AgentCard: streaming is advertised
AgentCardStreaming(ns, sk) ==
  [ name                 |-> "ethernaut_agent",
    description          |-> "Smart contract security expert agent for Ethernaut challenges",
    url                  |-> CardUrl(ns),
    version              |-> "2.0.0",
    default_input_modes  |-> <<"text">>,
    default_output_modes |-> <<"text">>,
    capabilities         |-> [streaming |-> TRUE],
    skills               |-> <<sk>> ]

AgentCard(ns, sk) ==
  [ name                 |-> "ethernaut_agent",
    description          |-> "Smart contract security expert agent for Ethernaut challenges",
    url                  |-> CardUrl(ns),
    version              |-> "2.0.0",
    default_input_modes  |-> <<"text">>,
    default_output_modes |-> <<"text">>,
    capabilities         |-> [streaming |-> FALSE],
    skills               |-> <<sk>> ]

\* to_a2a(root_agent, agent_card=agent_card)
A2AApp(agent, card) == [agent |-> agent, agent_card |-> card]

(***************************************************************************)
(* Reading the prompt.                                                     *)
(***************************************************************************)
\* the tokens pat occur in line ln, consecutively, starting at position i
MatchAt(ln, i, pat) ==
  /\ i + Len(pat) - 1 <= Len(ln)
  /\ \A k \in 1..Len(pat) : ln[i + k - 1] = pat[k]

LineContains(ln, pat) == \E i \in 1..Len(ln) : MatchAt(ln, i, pat)

TextContains(text, pat) == \E n \in 1..Len(text) : LineContains(text[n], pat)

\* a section header: === TITLE ===
IsHeader(ln) == Len(ln) >= 6 /\ MatchAt(ln, 1, <<"=", "=", "=">>)

AvailableToolsHeader == <<"=", "=", "=", "AVAILABLE", "TOOLS", "=", "=", "=">>

\* the names listed as "- name: purpose" under === AVAILABLE TOOLS ===
ListedTools(text) ==
  { text[n][2] : n \in
      { m \in 1..Len(text) :
          /\ Len(text[m]) >= 3
          /\ text[m][1] = "-"
          /\ text[m][3] = ":"
          /\ \E h \in 1..(m - 1) :
               /\ text[h] = AvailableToolsHeader
               /\ \A j \in (h + 1)..(m - 1) : ~IsHeader(text[j]) } }

NameField == <<"{", "\"", "name", "\"", ":", "\"">>

\* the names used in the tool calls written out in the prompt: {"name": "X", ...
ExampleTools(text) ==
  { text[n][7] : n \in
      { m \in 1..Len(text) :
          /\ Len(text[m]) >= 8
          /\ MatchAt(text[m], 1, NameField)
          /\ text[m][8] = "\"" } }

OpenTag == <<"<", "json", ">">>

CloseTag == <<"<", "/", "json", ">">>

(***************************************************************************)
(* main()                                                                  *)
(***************************************************************************)
VARIABLES
  argv,         \* the command line of this run
  pc,           \* position in main()
  args,         \* the namespace returned by parse_args()
  root_agent,   \* local root_agent
  skill,        \* local skill
  agent_card,   \* local agent_card
  a2a_app,      \* local a2a_app
  stdout,       \* lines printed
  server,       \* the arguments uvicorn.run was called with
  listener,     \* the address the server listened on, once it has
  exit,         \* how the process ended
  steps         \* the steps of main() completed so far, in order

vars ==
  <<argv, pc, args, root_agent, skill, agent_card, a2a_app, stdout, server,
    listener, exit, steps>>

Init ==
  /\ argv \in ArgvSet
  /\ pc = "start"
  /\ args = None
  /\ root_agent = None
  /\ skill = None
  /\ agent_card = None
  /\ a2a_app = None
  /\ stdout = << >>
  /\ server = None
  /\ listener = None
  /\ exit = "none"
  /\ steps = << >>

\* variant of ParseArgs: a --port that is not an integer is ignored
ParseArgsLenient ==
  /\ pc = "start"
  /\ args' = Some(Namespace(IF ArgvValid(argv) THEN argv ELSE [argv EXCEPT !.port = None]))
  /\ pc' = "parsed"
  /\ steps' = Append(steps, "parse")
  /\ UNCHANGED <<argv, root_agent, skill, agent_card, a2a_app, stdout, server, listener, exit>>

\* parser.parse_args(): a usage error exits the process (SystemExit 2)
ParseArgs ==
  /\ pc = "start"
  /\ IF ArgvValid(argv)
       THEN /\ args' = Some(Namespace(argv))
            /\ pc' = "parsed"
            /\ steps' = Append(steps, "parse")
            /\ exit' = exit
       ELSE /\ pc' = "stopped"
            /\ exit' = "usage_error"
            /\ UNCHANGED <<args, steps>>
  /\ UNCHANGED <<argv, root_agent, skill, agent_card, a2a_app, stdout, server, listener>>

\* variant of ConstructAgent: the temperature follows the command line
ConstructAgentWarm ==
  /\ pc = "parsed"
  /\ root_agent' =
       Some([RootAgent EXCEPT !.generate_content_config.temperature =
               IF Val(args).card_url = None THEN 0 ELSE 1])
  /\ pc' = "agent"
  /\ steps' = Append(steps, "agent")
  /\ UNCHANGED <<argv, args, skill, agent_card, a2a_app, stdout, server, listener, exit>>

\* root_agent = Agent(...)
ConstructAgent ==
  /\ pc = "parsed"
  /\ root_agent' = Some(RootAgent)
  /\ pc' = "agent"
  /\ steps' = Append(steps, "agent")
  /\ UNCHANGED <<argv, args, skill, agent_card, a2a_app, stdout, server, listener, exit>>

\* skill = AgentSkill(...)
ConstructSkill ==
  /\ pc = "agent"
  /\ skill' = Some(Skill)
  /\ pc' = "skill"
  /\ steps' = Append(steps, "skill")
  /\ UNCHANGED <<argv, args, root_agent, agent_card, a2a_app, stdout, server, listener, exit>>

\* agent_card = AgentCard(...)
ConstructCard ==
  /\ pc = "skill"
  /\ agent_card' = Some(AgentCard(Val(args), Val(skill)))
  /\ pc' = "card"
  /\ steps' = Append(steps, "card")
  /\ UNCHANGED <<argv, args, root_agent, skill, a2a_app, stdout, server, listener, exit>>

\* a2a_app = to_a2a(root_agent, agent_card=agent_card)
ToA2A ==
  /\ pc = "card"
  /\ a2a_app' = Some(A2AApp(Val(root_agent), Val(agent_card)))
  /\ pc' = "app"
  /\ steps' = Append(steps, "adapt")
  /\ UNCHANGED <<argv, args, root_agent, skill, agent_card, stdout, server, listener, exit>>

\* variant of RunServer: with a card url the server is run on the wildcard address
RunServerCardHost ==
  /\ pc = "app"
  /\ stdout' = Append(stdout, StartLine(Val(args)))
  /\ server' = Some([app  |-> Val(a2a_app),
                     host |-> IF Truthy(Val(args).card_url) THEN "0.0.0.0" ELSE Val(args).host,
                     port |-> Val(args).port])
  /\ pc' = "running"
  /\ steps' = Append(steps, "run")
  /\ UNCHANGED <<argv, args, root_agent, skill, agent_card, a2a_app, listener, exit>>

\* print(...); uvicorn.run(a2a_app, host=args.host, port=args.port) is entered
RunServer ==
  /\ pc = "app"
  /\ stdout' = Append(stdout, StartLine(Val(args)))
  /\ server' = Some([app  |-> Val(a2a_app),
                     host |-> Val(args).host,
                     port |-> Val(args).port])
  /\ pc' = "running"
  /\ steps' = Append(steps, "run")
  /\ UNCHANGED <<argv, args, root_agent, skill, agent_card, a2a_app, listener, exit>>

\* variant of StartupError: a failed step starts main() over
StartupErrorRetry ==
  /\ pc \in {"parsed", "agent", "skill", "card"}
  /\ pc' = "start"
  /\ UNCHANGED <<argv, args, root_agent, skill, agent_card, a2a_app, stdout, server, listener, exit, steps>>

\* Agent(), AgentSkill(), AgentCard() or to_a2a() raises: nothing in main()
\* catches it, the process ends
StartupError ==
  /\ pc \in {"parsed", "agent", "skill", "card"}
  /\ pc' = "stopped"
  /\ exit' = "exception"
  /\ UNCHANGED <<argv, args, root_agent, skill, agent_card, a2a_app, stdout, server, listener, steps>>

\* inside uvicorn.run: the server binds the host and port it was given.
\* Whether the bind succeeds is the environment's choice.
ServerListen ==
  /\ pc = "running"
  /\ listener = None
  /\ listener' = Some([host |-> Val(server).host, port |-> Val(server).port])
  /\ UNCHANGED <<argv, pc, args, root_agent, skill, agent_card, a2a_app, stdout, server, exit, steps>>

\* uvicorn.run returns: main() returns and the process exits
ServerReturn ==
  /\ pc = "running"
  /\ pc' = "stopped"
  /\ exit' = "returned"
  /\ UNCHANGED <<argv, args, root_agent, skill, agent_card, a2a_app, stdout, server, listener, steps>>

\* variant of ServerRaise: the server is run again after it raised
ServerRaiseRestart ==
  /\ pc = "running"
  /\ pc' = "app"
  /\ UNCHANGED <<argv, args, root_agent, skill, agent_card, a2a_app, stdout, server, listener, exit, steps>>

\* uvicorn.run raises (or exits on a failed start-up): the process ends
ServerRaise ==
  /\ pc = "running"
  /\ pc' = "stopped"
  /\ exit' = "exception"
  /\ UNCHANGED <<argv, args, root_agent, skill, agent_card, a2a_app, stdout, server, listener, steps>>

Next ==
  \/ ParseArgs
  \/ ConstructAgent
  \/ ConstructSkill
  \/ ConstructCard
  \/ ToA2A
  \/ RunServer
  \/ StartupError
  \/ ServerListen
  \/ ServerReturn
  \/ ServerRaise

Spec == Init /\ [][Next]_vars

(***************************************************************************)
(* Properties.                                                             *)
(***************************************************************************)
ToolSet ==
  {"get_new_instance", "view_source", "exec_console", "deploy_attack_contract",
   "submit_instance"}

StartupOrder == <<"parse", "agent", "skill", "card", "adapt", "run">>

IsPrefix(s, t) == Len(s) <= Len(t) /\ SubSeq(t, 1, Len(s)) = s

\* the position after pc in main(); the process can also stop
NextPc(p) ==
  CASE p = "start"   -> "parsed"
    [] p = "parsed"  -> "agent"
    [] p = "agent"   -> "skill"
    [] p = "skill"   -> "card"
    [] p = "card"    -> "app"
    [] p = "app"     -> "running"
    [] OTHER         -> "stopped"

Phase(p) ==
  CASE p \in {"start", "parsed", "agent", "skill", "card", "app"} -> "not_started"
    [] p = "running" -> "running"
    [] p = "stopped" -> "stopped"
    [] OTHER         -> "unknown"

\* C1: the card's url is http://{host}:{port}/ when --card-url is omitted and
\* the literal --card-url value whenever --card-url is supplied, the empty
\* string included.
C1_CardUrlIsLiteralOrSynthesized ==
  agent_card # None =>
    Val(agent_card).url =
      IF argv.card_url = None
        THEN "http://" \o Val(args).host \o ":" \o IntToStr(Val(args).port) \o "/"
        ELSE Val(argv.card_url)

\* C2: a --port value that is not an integer ends the run in the usage-error
\* state, with no agent, no card, no web application and no listener.
C2_BadPortIsUsageError ==
  /\ (argv.port # None /\ ~IsPyInt(Val(argv.port)) /\ pc # "start") =>
       pc = "stopped" /\ exit = "usage_error"
  /\ exit = "usage_error" =>
       /\ args = None
       /\ root_agent = None
       /\ skill = None
       /\ agent_card = None
       /\ a2a_app = None
       /\ server = None
       /\ listener = None
       /\ stdout = << >>
       /\ steps = << >>

C2_Witness ==
  /\ argv.port = Some(<<"a">>)
  /\ pc = "stopped"
  /\ exit = "usage_error"

\* C3: with no command-line arguments the host is 127.0.0.1 and the port 9020,
\* and these two values make the card url and are the ones the server is run
\* with.
C3_NoArgumentsDefaults ==
  (argv = [host |-> None, port |-> None, card_url |-> None] /\ pc # "start") =>
    /\ exit # "usage_error"
    /\ Val(args).host = "127.0.0.1"
    /\ Val(args).port = 9020
    /\ agent_card # None => Val(agent_card).url = "http://127.0.0.1:9020/"
    /\ server # None => Val(server).host = "127.0.0.1" /\ Val(server).port = 9020
    /\ listener # None => Val(listener) = [host |-> "127.0.0.1", port |-> 9020]

C3_Witness ==
  /\ argv = [host |-> None, port |-> None, card_url |-> None]
  /\ listener # None
  /\ agent_card # None

\* C4: whenever the agent has been constructed its generation configuration
\* has temperature 0, whatever the command line was.
C4_TemperatureZero ==
  /\ root_agent # None =>
       Val(root_agent).generate_content_config.temperature = 0
  /\ a2a_app # None =>
       Val(a2a_app).agent.generate_content_config.temperature = 0

C4_Witness ==
  /\ root_agent # None
  /\ argv.host # None
  /\ argv.port # None
  /\ argv.card_url # None
  /\ a2a_app # None

\* C5: whenever the card has been built it advertises streaming = False and
\* exactly one skill, whose id is ethernaut_solving.
C5_CardStreamingAndSkill ==
  agent_card # None =>
    /\ Val(agent_card).capabilities.streaming = FALSE
    /\ Len(Val(agent_card).skills) = 1
    /\ Val(agent_card).skills[1].id = "ethernaut_solving"

C5_Witness ==
  /\ agent_card # None
  /\ Truthy(argv.card_url)
  /\ pc = "card"

\* C6: the instruction given to the agent is the non-empty constant
\* ETHERNAUT_INSTRUCTION; it lists every tool of the fixed set, contains the
\* <json>...</json> convention, and the tool names used in its written-out
\* tool calls are exactly the five tools.
C6_InstructionNamesTools ==
  root_agent # None =>
    LET text == Val(root_agent).instruction
    IN  /\ text = ETHERNAUT_INSTRUCTION
        /\ Len(text) > 0
        /\ \E n \in 1..Len(text) : Len(text[n]) > 0
        /\ \A t \in ToolSet : TextContains(text, <<t>>)
        /\ ListedTools(text) = ToolSet
        /\ TextContains(text, OpenTag \o <<".", ".", ".">> \o CloseTag)
        /\ \E n \in 1..Len(text) : text[n] = OpenTag
        /\ \E n \in 1..Len(text) : text[n] = CloseTag
        /\ ExampleTools(text) = ToolSet

C6_Witness ==
  /\ root_agent # None
  /\ pc = "agent"
  /\ Cardinality(ExampleTools(Val(root_agent).instruction)) = 5

\* what every state of a run satisfies: the completed steps are an initial
\* part of the fixed order, and the server and the listener come last
StartupStateOrder ==
  /\ IsPrefix(steps, StartupOrder)
  /\ (server # None \/ listener # None \/ Phase(pc) = "running") =>
       steps = StartupOrder
  /\ (pc = "stopped" /\ steps # StartupOrder) =>
       /\ server = None
       /\ listener = None
       /\ exit \in {"usage_error", "exception"}

\* what every step of a run satisfies: the position moves one step forward
\* or to stopped
StartupStepOrder ==
  /\ pc' # pc => (pc' = NextPc(pc) \/ pc' = "stopped")
  /\ (pc' # pc /\ pc' # "stopped") =>
       steps' = Append(steps, StartupOrder[Len(steps) + 1])
  /\ (pc' = "stopped" /\ Phase(pc) = "not_started") =>
       /\ steps' = steps
       /\ listener' = None
       /\ server' = None
  /\ listener' # listener => (pc = "running" /\ steps = StartupOrder)

\* C7: the start-up steps happen in the order parse, agent, skill, card,
\* adapt, run, one after the other with no step repeated or taken back; the
\* server is run and the listener started only after all earlier steps, and a
\* failure in an earlier step leads straight to stopped with no listener.
C7_StartupOrder == []StartupStateOrder /\ [][StartupStepOrder]_vars

C7_Witness ==
  /\ pc = "stopped"
  /\ exit = "exception"
  /\ steps = <<"parse", "agent", "skill">>

\* what every step of a run satisfies, in terms of the three phases
PhaseStep ==
  /\ Phase(pc) \in {"not_started", "running", "stopped"}
  /\ Phase(pc) = "stopped" => (Phase(pc') = "stopped" /\ exit' = exit)
  /\ Phase(pc) = "running" => Phase(pc') \in {"running", "stopped"}
  /\ (Phase(pc) = "running" /\ Phase(pc') = "stopped") =>
       exit' \in {"returned", "exception"}
  /\ (Phase(pc') = "running" /\ Phase(pc) # "running") =>
       (Phase(pc) = "not_started" /\ pc = "app")
  /\ Phase(pc) = "not_started" => Phase(pc') # "unknown"

\* C8: the process is not yet started, running or stopped; it leaves running
\* only when the server call returns or raises, stopped is never left, and
\* running is entered only from not yet started.
C8_Phases == [][PhaseStep]_vars

C8_Witness ==
  /\ pc = "stopped"
  /\ exit = "returned"
  /\ listener # None

\* C9: parsing checks nothing but the types: every integer --port, negative
\* and above 65535 included, and every --host text is accepted, and both reach
\* the synthesized card url and the server call unchanged.
C9_NoRangeValidation ==
  (pc # "start" /\ argv.port # None /\ IsPyInt(Val(argv.port)) /\ argv.host # None) =>
    /\ exit # "usage_error"
    /\ Val(args).host = Val(argv.host)
    /\ Val(args).port = PyInt(Val(argv.port))
    /\ (agent_card # None /\ argv.card_url = None) =>
         Val(agent_card).url =
           "http://" \o Val(argv.host) \o ":" \o IntToStr(PyInt(Val(argv.port))) \o "/"
    /\ server # None =>
         /\ Val(server).host = Val(argv.host)
         /\ Val(server).port = PyInt(Val(argv.port))
    /\ argv.port = Some(<<"6", "5", "5", "3", "6">>) => Val(args).port = 65536
    /\ argv.port = Some(<<"-", "9">>) => Val(args).port = 0 - 9
    /\ (agent_card # None /\ argv.card_url = None /\ argv.host = Some("example.org")
          /\ argv.port = Some(<<"-", "7", "0", "0", "0", "0">>)) =>
         Val(agent_card).url = "http://example.org:-70000/"

C9_Witness ==
  /\ argv.port = Some(<<"9", "9", "9", "9", "9">>)
  /\ argv.host = Some("")
  /\ argv.card_url = None
  /\ server # None
  /\ Val(server).port > 65535
  /\ Val(agent_card).url = "http://:99999/"

\* C10: the address the server is run on and listens on is the parsed --host
\* and --port (or their defaults) whatever --card-url is; --card-url changes
\* only the advertised url, which may name another address.
C10_BindIgnoresCardUrl ==
  LET host == IF argv.host = None THEN "127.0.0.1" ELSE Val(argv.host)
      port == IF argv.port = None THEN 9020 ELSE PyInt(Val(argv.port))
  IN  /\ server # None => (Val(server).host = host /\ Val(server).port = port)
      /\ listener # None => Val(listener) = [host |-> host, port |-> port]
      /\ server # None =>
           stdout = <<"Starting Ethernaut Purple Agent on " \o host \o ":" \o IntToStr(port)>>

C10_Witness ==
  /\ listener # None
  /\ argv.card_url = Some("https://agent.example/a2a")
  /\ Val(agent_card).url = "https://agent.example/a2a"
  /\ Val(agent_card).url # SynthUrl(Val(listener).host, Val(listener).port)
====
